---- MODULE Spec2Model ----
(***************************************************************************)
(* Model of embedded_utils.hpp (namespace utils): copy_every_nth and mean, *)
(* each in its two overloads, and the error primitive THROW_OR_PANIC.      *)
(*                                                                         *)
(* Memory.  The spans are views of caller memory: mem is a run of cells,   *)
(* the source span is the srcLen cells from cell srcBase, the destination  *)
(* span the dstLen cells from cell dstBase.  The two spans may overlap.    *)
(* Cell a of the code (counted from 0) is mem[a + 1].                      *)
(*                                                                         *)
(* std::size_t.  A value of std::size_t is kept as an integer r: r >= 0 is *)
(* the value r, r < 0 is the value 2^w - |r|, that is (std::size_t)r, so   *)
(* -1 is SIZE_MAX = std::dynamic_extent.  Sums and differences of such     *)
(* values are the integer sums and differences (the wrap-around modulo 2^w *)
(* shows as a change of sign); order and division are ULt and UDiv.        *)
(*                                                                         *)
(* One behaviour is one pair of calls on the same arguments: first with    *)
(* both spans of dynamic extent (the overload of lines 70-95), then with   *)
(* at least one span of static extent (the overload of lines 50-68, when   *)
(* its static_asserts let the call compile), each call on its own copy of  *)
(* the memory.                                                             *)
(***************************************************************************)
EXTENDS Integers, Sequences, FiniteSets

\* ---------------------------------------------------------------- bounds
MemSize == 4     \* cells of the enumerated memory
MaxStride == 3   \* N ranges over 1..MaxStride and SIZE_MAX-MaxStride+1..SIZE_MAX
MaxStart == 4    \* StartIdx ranges over 0..MaxStart and SIZE_MAX

\* ------------------------------------------------------------ std::size_t

\* std::dynamic_extent = SIZE_MAX
DynamicExtent == 0 - 1

\* a value too far from both 0 and 2^w to be kept as an integer: only a
\* quotient can be one, and the code only compares it
Mid == 2 ^ 30

\* a < b in std::size_t
ULt(a, b) == IF (a < 0) = (b < 0) THEN a < b ELSE b < 0

\* a / n in std::size_t, n # 0
UDiv(a, n) ==
    IF n > 0
    THEN IF a >= 0 THEN a \div n
         ELSE IF n = 1 THEN a ELSE Mid
    ELSE IF a < 0 /\ a >= n THEN 1 ELSE 0

Strides == (1 .. MaxStride) \cup ((0 - MaxStride) .. (0 - 1))
Starts == (0 .. MaxStart) \cup {DynamicExtent}

\* ------------------------------------------------------------ call arguments

\* memory whose cell k holds k + 1: every copied value names its origin
Iota(n) == [k \in 1 .. n |-> k]

\* the spans of a memory of n cells: <<base, length>>
Spans(n) == {s \in (0 .. n) \X (0 .. n) : s[1] + s[2] <= n}

Call(m, sb, sl, db, dl, n, s) ==
    [mem |-> m, srcBase |-> sb, srcLen |-> sl, dstBase |-> db, dstLen |-> dl,
     N |-> n, StartIdx |-> s]

\* the calls of the documentation's examples
ExampleCopies ==
    {Call(<<10, 20, 30, 40, 50, 0, 0, 0>>, 0, 5, 5, 3, 2, 0),
     Call(<<1, 2, 3, 4, 0>>, 0, 4, 4, 1, 3, 1)}

CopyCalls ==
    {Call(Iota(MemSize), src[1], src[2], dst[1], dst[2], n, s) :
        src \in Spans(MemSize), dst \in Spans(MemSize), n \in Strides, s \in Starts}
    \cup ExampleCopies

MeanCalls ==
    {Call(Iota(MemSize), src[1], src[2], 0, 0, 1, 0) : src \in Spans(MemSize)}
    \cup {Call(<<2, 4, 6>>, 0, 3, 0, 0, 1, 0)}

\* what a read outside the modelled memory may return
WildVals == {0, 1}

\* --------------------------------------------------------------- messages
NoError == "none"
MsgInvalidStart == "Invalid start index"
MsgInsufficient == "Destination container does not have sufficient size, "
MsgEmptySource == "Source container must be non-empty"

NoValue == <<>>

VARIABLES
    op,           \* "copy" or "mean": which function the pair of calls is of
    exceptions,   \* EXCEPTIONS_ENABLED of the build
    mem0,         \* the memory before either call
    srcBase,      \* first cell of the source span
    srcLen,       \* source.size()
    dstBase,      \* first cell of the destination span
    dstLen,       \* destination.size()
    N,            \* template parameter N
    StartIdx,     \* template parameter StartIdx
    pc,           \* control location
    err,          \* message THROW_OR_PANIC was called with, or NoError
    requiredSize, \* local of the dynamic-extent overload
    i,            \* loop variable of the running overload
    destIndex,    \* local destIndex of the running overload
    dMem,         \* memory of the dynamic-extent call
    dWritten,     \* indices the dynamic-extent call assigned through destination[]
    dOob,         \* the dynamic-extent call accessed a span out of bounds
    srcStatic,    \* the second call's source span has a static extent
    dstStatic,    \* the second call's destination span has a static extent
    sMem,         \* memory of the second call
    sWritten,     \* indices the second call assigned through destination[]
    sOob,         \* the second call accessed a span out of bounds
    dynMean,      \* value returned by the dynamic-extent mean
    statMean      \* value returned by the static-extent mean

vars == <<op, exceptions, mem0, srcBase, srcLen, dstBase, dstLen, N, StartIdx,
          pc, err, requiredSize, i, destIndex, dMem, dWritten, dOob,
          srcStatic, dstStatic, sMem, sWritten, sOob, dynMean, statMean>>

args == <<op, exceptions, mem0, srcBase, srcLen, dstBase, dstLen, N, StartIdx>>

dynCall == <<requiredSize, dMem, dWritten, dOob, dynMean>>
statCall == <<srcStatic, dstStatic, sMem, sWritten, sOob, statMean>>

\* ------------------------------------------------------------- helpers

\* the elements a span of len cells from cell base shows of memory m
View(m, base, len) == [k \in 1 .. len |-> m[base + k]]

\* cell a is inside the modelled memory
InMemory(m, a) == a >= 0 /\ a < Len(m)

\* THROW_OR_PANIC never returns: with exceptions it throws, otherwise it
\* aborts.  The value is the control location after the call; resume is the
\* location of the statement that follows the call.
THROW_OR_PANIC_Returns(resume) == resume
THROW_OR_PANIC(resume) == IF exceptions THEN "thrown" ELSE "aborted"

\* if (StartIdx > std::size(source) or StartIdx < 0)
StartIdxInvalid(size, s) == ULt(size, s) \/ ULt(s, 0)

\* (size - StartIdx + N - 1) / N in std::size_t
RequiredSize(size, s, n) == UDiv(size - s + n - 1, n)

\* if (requiredSize > std::size(destination))
CapacityInsufficient_Ge(req, size) == ~ULt(req, size)
CapacityInsufficient(req, size) == ULt(size, req)

\* the three static_asserts of the overload of lines 50-68
StaticAsserts(SourceExtent, DestExtent, n, s) ==
    /\ ULt(s, SourceExtent) /\ ~ULt(s, 0)
    /\ ULt(0, n)
    /\ ~ULt(DestExtent, RequiredSize(SourceExtent, s, n))

\* the extents the overload of lines 50-68 is instantiated with
SourceExtent == IF srcStatic THEN srcLen ELSE DynamicExtent
DestExtent == IF dstStatic THEN dstLen ELSE DynamicExtent

\* source.empty()
SourceEmpty_AtMostOne(src) == Len(src) <= 1
SourceEmpty(src) == Len(src) = 0

\* std::accumulate(begin, end, init)
RECURSIVE Accumulate(_, _)
RECURSIVE Accumulate_DropsLast(_, _)
Accumulate_DropsLast(src, init) ==
    IF Len(src) <= 1 THEN init
    ELSE Accumulate_DropsLast(Tail(src), init + Head(src))
Accumulate(src, init) ==
    IF Len(src) = 0 THEN init
    ELSE Accumulate(Tail(src), init + Head(src))

RECURSIVE GCD(_, _)
GCD(a, b) == IF b = 0 THEN a ELSE GCD(b, a % b)

\* sum / count in double: the quotient, kept exact as a fraction in lowest
\* terms <<numerator, denominator>>
Divide(sum, count) ==
    LET g == GCD(sum, count) IN <<sum \div g, count \div g>>

\* ---------------------------------------------------------------- Init
Init ==
    /\ op \in {"copy", "mean"}
    /\ exceptions \in BOOLEAN
    /\ \E c \in (IF op = "copy" THEN CopyCalls ELSE MeanCalls) :
          /\ mem0 = c.mem
          /\ srcBase = c.srcBase /\ srcLen = c.srcLen
          /\ dstBase = c.dstBase /\ dstLen = c.dstLen
          /\ N = c.N /\ StartIdx = c.StartIdx
    /\ pc = IF op = "copy" THEN "dyn_start" ELSE "mean_dyn"
    /\ err = NoError
    /\ requiredSize = 0
    /\ i = 0
    /\ destIndex = 0
    /\ dMem = mem0
    /\ dWritten = {}
    /\ dOob = FALSE
    /\ srcStatic = FALSE
    /\ dstStatic = FALSE
    /\ sMem = mem0
    /\ sWritten = {}
    /\ sOob = FALSE
    /\ dynMean = NoValue
    /\ statMean = NoValue

\* ------------------------------------------- copy_every_nth, dynamic extent

\* the two checks in the other order
CopyDynCheckStart_CapacityFirst ==
    /\ pc = "dyn_start"
    /\ IF CapacityInsufficient(RequiredSize(srcLen, StartIdx, N), dstLen)
       THEN /\ err' = MsgInsufficient
            /\ pc' = THROW_OR_PANIC("dyn_start")
       ELSE IF StartIdxInvalid(srcLen, StartIdx)
       THEN /\ err' = MsgInvalidStart
            /\ pc' = THROW_OR_PANIC("dyn_required")
       ELSE /\ err' = err
            /\ pc' = "dyn_required"
    /\ UNCHANGED <<args, i, destIndex, dynCall, statCall>>

\* lines 77-80
CopyDynCheckStart ==
    /\ pc = "dyn_start"
    /\ IF StartIdxInvalid(srcLen, StartIdx)
       THEN /\ err' = MsgInvalidStart
            /\ pc' = THROW_OR_PANIC("dyn_required")
       ELSE /\ err' = err
            /\ pc' = "dyn_required"
    /\ UNCHANGED <<args, i, destIndex, dynCall, statCall>>

\* lines 82-91 (up to the loop's initialisation)
CopyDynCheckCapacity ==
    /\ pc = "dyn_required"
    /\ requiredSize' = RequiredSize(srcLen, StartIdx, N)
    /\ IF CapacityInsufficient(requiredSize', dstLen)
       THEN /\ err' = MsgInsufficient
            /\ pc' = THROW_OR_PANIC("dyn_loop")
            /\ UNCHANGED <<destIndex, i>>
       ELSE /\ err' = err
            /\ pc' = "dyn_loop"
            /\ destIndex' = 0
            /\ i' = StartIdx
    /\ UNCHANGED <<args, dMem, dWritten, dOob, dynMean, statCall>>

\* lines 91-94, one iteration whose destination[destIndex] is inside the
\* span (source[i] always is: i < size): the cell of the destination
\* receives what the cell of the source holds now
CopyDynLoopWrite ==
    /\ pc = "dyn_loop"
    /\ ULt(i, srcLen)
    /\ ULt(destIndex, dstLen)
    /\ dMem' = [dMem EXCEPT ![dstBase + destIndex + 1] = dMem[srcBase + i + 1]]
    /\ dWritten' = dWritten \cup {destIndex}
    /\ destIndex' = destIndex + 1
    /\ i' = i + N
    /\ UNCHANGED <<args, pc, err, requiredSize, dOob, dynMean, statCall>>

\* lines 91-94, one iteration whose destination[destIndex] is past the end of
\* the span: undefined behaviour.  The access is trapped (a hardened span),
\* or the assignment goes to the cell at that address: a cell of the
\* modelled memory, which may be one of the source, or one outside it.
CopyDynLoopOutOfBounds ==
    /\ pc = "dyn_loop"
    /\ ULt(i, srcLen)
    /\ ~ULt(destIndex, dstLen)
    /\ dOob' = TRUE
    /\ \/ /\ pc' = "dyn_trap"
          /\ UNCHANGED <<dMem, dWritten, destIndex, i>>
       \/ /\ pc' = pc
          /\ dMem' = IF InMemory(dMem, dstBase + destIndex)
                     THEN [dMem EXCEPT ![dstBase + destIndex + 1] =
                                           dMem[srcBase + i + 1]]
                     ELSE dMem
          /\ dWritten' = dWritten \cup {destIndex}
          /\ destIndex' = destIndex + 1
          /\ i' = i + N
    /\ UNCHANGED <<args, err, requiredSize, dynMean, statCall>>

\* line 91: the loop condition fails
CopyDynLoopExit ==
    /\ pc = "dyn_loop"
    /\ ~ULt(i, srcLen)
    /\ pc' = "dyn_done"
    /\ UNCHANGED <<args, err, i, destIndex, dynCall, statCall>>

\* ------------------------------ copy_every_nth, overload of lines 50-68

CopyDynFinished == pc \in {"dyn_done", "dyn_trap", "thrown", "aborted"}

\* lines 56-63: the overload is chosen when a span has a static extent (a
\* span of dynamic extent then has the extent std::dynamic_extent), and the
\* call compiles only if the static_asserts hold
CopyStaticCall ==
    /\ op = "copy"
    /\ CopyDynFinished
    /\ \E ss \in BOOLEAN, ds \in BOOLEAN :
          /\ ss \/ ds
          /\ srcStatic' = ss
          /\ dstStatic' = ds
          /\ StaticAsserts(IF ss THEN srcLen ELSE DynamicExtent,
                           IF ds THEN dstLen ELSE DynamicExtent, N, StartIdx)
    /\ destIndex' = 0
    /\ i' = StartIdx
    /\ pc' = "st_loop"
    /\ UNCHANGED <<args, err, dynCall, sMem, sWritten, sOob, statMean>>

\* lines 63-67, one iteration with source[i] and destination[destIndex]
\* inside their spans
CopyStaticLoopStep ==
    /\ pc = "st_loop"
    /\ ULt(i, SourceExtent) /\ ULt(destIndex, DestExtent)
    /\ ULt(i, srcLen) /\ ULt(destIndex, dstLen)
    /\ sMem' = [sMem EXCEPT ![dstBase + destIndex + 1] = sMem[srcBase + i + 1]]
    /\ sWritten' = sWritten \cup {destIndex}
    /\ destIndex' = destIndex + 1
    /\ i' = i + N
    /\ UNCHANGED <<args, pc, err, dynCall, srcStatic, dstStatic, sOob, statMean>>

\* lines 63-67, one iteration with source[i] or destination[destIndex]
\* outside its span (only with a span of dynamic extent, whose extent in
\* the loop condition is SIZE_MAX): undefined behaviour.  The access is
\* trapped, or it goes to the cell at that address; a read outside the
\* modelled memory yields any value, a write outside it is not seen.
CopyStaticLoopOutOfBounds ==
    /\ pc = "st_loop"
    /\ ULt(i, SourceExtent) /\ ULt(destIndex, DestExtent)
    /\ ~(ULt(i, srcLen) /\ ULt(destIndex, dstLen))
    /\ sOob' = TRUE
    /\ \/ /\ pc' = "st_trap"
          /\ UNCHANGED <<sMem, sWritten, destIndex, i>>
       \/ /\ pc' = pc
          /\ \E v \in (IF InMemory(sMem, srcBase + i)
                       THEN {sMem[srcBase + i + 1]} ELSE WildVals) :
                sMem' = IF InMemory(sMem, dstBase + destIndex)
                        THEN [sMem EXCEPT ![dstBase + destIndex + 1] = v]
                        ELSE sMem
          /\ sWritten' = sWritten \cup {destIndex}
          /\ destIndex' = destIndex + 1
          /\ i' = i + N
    /\ UNCHANGED <<args, err, dynCall, srcStatic, dstStatic, statMean>>

\* line 63: the loop condition fails
CopyStaticLoopExit ==
    /\ pc = "st_loop"
    /\ ~(ULt(i, SourceExtent) /\ ULt(destIndex, DestExtent))
    /\ pc' = "st_done"
    /\ UNCHANGED <<args, err, i, destIndex, dynCall, statCall>>

\* ------------------------------------------------------------------- mean

\* lines 113-124
MeanDynamic ==
    /\ pc = "mean_dyn"
    /\ IF SourceEmpty(View(mem0, srcBase, srcLen))
       THEN /\ err' = MsgEmptySource
            /\ pc' = THROW_OR_PANIC("mean_dyn_div")
            /\ dynMean' = dynMean
       ELSE /\ err' = err
            /\ pc' = "mean_dyn_done"
            /\ dynMean' = Divide(Accumulate(View(mem0, srcBase, srcLen), 0), srcLen)
    /\ UNCHANGED <<args, requiredSize, i, destIndex, dMem, dWritten, dOob, statCall>>

\* lines 105-111: compiles only if Extent > 0
MeanStatic ==
    /\ op = "mean"
    /\ pc \in {"mean_dyn_done", "thrown", "aborted"}
    /\ srcLen > 0
    /\ srcStatic' = TRUE
    /\ statMean' = Divide(Accumulate(View(mem0, srcBase, srcLen), 0), srcLen)
    /\ pc' = "mean_st_done"
    /\ UNCHANGED <<args, err, i, destIndex, dynCall, dstStatic, sMem, sWritten, sOob>>

Next ==
    \/ CopyDynCheckStart
    \/ CopyDynCheckCapacity
    \/ CopyDynLoopWrite
    \/ CopyDynLoopOutOfBounds
    \/ CopyDynLoopExit
    \/ CopyStaticCall
    \/ CopyStaticLoopStep
    \/ CopyStaticLoopOutOfBounds
    \/ CopyStaticLoopExit
    \/ MeanDynamic
    \/ MeanStatic

Spec == Init /\ [][Next]_vars

\* ================================================================ claims

\* the source span's elements before the call
Source0 == View(mem0, srcBase, srcLen)

\* StartIdx is an index of the source: 0 <= StartIdx < S
StartInside == StartIdx >= 0 /\ StartIdx < srcLen

\* the two spans share no cell
Disjoint == srcBase + srcLen <= dstBase \/ dstBase + dstLen <= srcBase

\* ceil((S - StartIdx) / N) over the integers, N being the value the
\* template parameter stands for (a negative N stands for 2^w - |N|, larger
\* than any S - StartIdx)
Count ==
    IF N > 0 THEN (srcLen - StartIdx + N - 1) \div N
    ELSE IF srcLen - StartIdx > 0 THEN 1 ELSE 0

\* both spans of the second call have a static extent
BothStatic == srcStatic /\ dstStatic

\* the dynamic-extent copy is over (returned, threw, aborted or trapped)
CopyDynOver ==
    /\ op = "copy"
    /\ pc \in {"dyn_done", "dyn_trap", "thrown", "aborted",
               "st_loop", "st_done", "st_trap"}

\* the dynamic-extent mean is over
MeanDynOver ==
    /\ op = "mean"
    /\ pc \in {"mean_dyn_done", "mean_st_done", "thrown", "aborted"}

\* in memory m the destination holds the selected elements in order
HoldsSelected(m, n) ==
    \A k \in 0 .. (n - 1) : m[dstBase + k + 1] = Source0[StartIdx + k * N + 1]

\* C1: for spans that do not overlap, N > 0, StartIdx < S and a destination
\* of at least ceil((S - StartIdx)/N) elements, a finished copy_every_nth
\* (dynamic extents, or static extents) has assigned exactly the indices
\* below that count, destination[k] being source[StartIdx + k*N], and no
\* index at or above the count.
C1_WritesExactlyCeil ==
    (op = "copy" /\ Disjoint /\ StartInside /\ dstLen >= Count) =>
        /\ CopyDynOver =>
              (dWritten = 0 .. (Count - 1) /\ HoldsSelected(dMem, Count))
        /\ (pc = "st_done" /\ BothStatic) =>
              (sWritten = 0 .. (Count - 1) /\ HoldsSelected(sMem, Count))

\* C2: whenever StartIdx >= source length (equality included), the
\* dynamic-extent copy_every_nth has signalled Invalid Start Index.
C2_StartAtOrPastEndSignals ==
    (CopyDynOver /\ ~ULt(StartIdx, srcLen)) => err = MsgInvalidStart

\* C3: with a start index inside the source, whenever the destination is
\* shorter than ceil((sourceLength - StartIdx)/N), the dynamic-extent
\* copy_every_nth has signalled Insufficient Destination Capacity.
C3_ShortDestinationSignals ==
    (CopyDynOver /\ StartInside /\ dstLen < Count) => err = MsgInsufficient

\* C4: when the destination capacity equals ceil((S - StartIdx)/N) (start
\* index inside the source), copy_every_nth signals no failure and every
\* destination index from 0 to capacity-1 has been assigned (with the
\* selected elements, when the spans do not overlap).
C4_ExactCapacityFills ==
    (op = "copy" /\ StartInside /\ dstLen = Count) =>
        /\ CopyDynOver =>
              /\ err = NoError
              /\ (0 .. (dstLen - 1)) \subseteq dWritten
              /\ Disjoint => HoldsSelected(dMem, dstLen)
        /\ pc \in {"st_done", "st_trap"} =>
              /\ (0 .. (dstLen - 1)) \subseteq sWritten
              /\ BothStatic => sWritten = 0 .. (dstLen - 1)
              /\ Disjoint => HoldsSelected(sMem, dstLen)

C4_Witness ==
    /\ pc = "dyn_done"
    /\ mem0 = <<1, 2, 3, 4, 0>> /\ N = 3 /\ StartIdx = 1
    /\ dstLen = 1
    /\ dMem = <<1, 2, 3, 4, 2>>
    /\ dWritten = {0}
    /\ err = NoError

\* C5: the dynamic-extent mean signals Empty Source exactly when the source
\* is empty; for a nonempty source it signals nothing and returns a value.
C5_EmptySourceIff ==
    MeanDynOver =>
        /\ (err = MsgEmptySource) <=> (srcLen = 0)
        /\ srcLen > 0 => (err = NoError /\ dynMean # NoValue)
        /\ srcLen = 0 => (pc \in {"thrown", "aborted"} /\ dynMean = NoValue)

C5_Witness ==
    /\ op = "mean"
    /\ pc = "mean_dyn_done"
    /\ srcLen = MemSize
    /\ err = NoError
    /\ dynMean # NoValue

\* sum of the first k elements, by index
RECURSIVE SumTo(_, _)
SumTo(s, k) == IF k = 0 THEN 0 ELSE SumTo(s, k - 1) + s[k]

\* the fraction q equals sum / count
IsQuotient(q, sum, count) ==
    /\ q # NoValue
    /\ q[2] > 0
    /\ q[1] * count = sum * q[2]

\* C6: for a nonempty sequence of k elements both overloads of mean return
\* (sum of the k elements) / k; mean([2, 4, 6]) = 4.
C6_MeanIsSumOverCount ==
    /\ (op = "mean" /\ pc \in {"mean_dyn_done", "mean_st_done"}) =>
          IsQuotient(dynMean, SumTo(Source0, srcLen), srcLen)
    /\ (op = "mean" /\ pc = "mean_st_done") =>
          /\ IsQuotient(statMean, SumTo(Source0, srcLen), srcLen)
          /\ Source0 = <<2, 4, 6>> => (dynMean = <<4, 1>> /\ statMean = <<4, 1>>)

C6_Witness ==
    /\ pc = "mean_st_done"
    /\ Source0 = <<2, 4, 6>>
    /\ dynMean = <<4, 1>>
    /\ statMean = <<4, 1>>

\* C7: once the dynamic-extent copy_every_nth has signalled a failure,
\* control is nowhere in the rest of that function (it threw or aborted),
\* it has assigned no destination element, and every cell of the memory,
\* of the destination and of the source, is as before the call.
C7_NoPartialSuccess ==
    [][(op = "copy" /\ err' # NoError) =>
          /\ pc' \notin {"dyn_start", "dyn_required", "dyn_loop", "dyn_done",
                         "dyn_trap"}
          /\ dMem' = mem0
          /\ dWritten' = {}
          /\ ~dOob'
          /\ mem0' = mem0]_vars

C7_Witness ==
    /\ op = "copy"
    /\ pc \in {"thrown", "aborted"}
    /\ err = MsgInsufficient
    /\ dstLen > 0
    /\ dMem = mem0

\* C8: the start-index check comes first: a StartIdx beyond the source
\* (greater than its length) is reported as Invalid Start Index whatever the
\* destination length, and Insufficient Destination Capacity is only
\* signalled for a start index that passed the first check.
C8_StartCheckedFirst ==
    CopyDynOver =>
        /\ ULt(srcLen, StartIdx) => err = MsgInvalidStart
        /\ err = MsgInsufficient => ~ULt(srcLen, StartIdx)

C8_Witness ==
    /\ op = "copy"
    /\ pc \in {"thrown", "aborted"}
    /\ ULt(srcLen, StartIdx)
    /\ dstLen = 0
    /\ srcLen > 0
    /\ err = MsgInvalidStart

\* C9: for StartIdx <= L the required length computed in std::size_t equals
\* ceil((L - StartIdx)/N), and a destination that passed the capacity check
\* is never assigned at an index >= its length.
C9_RequiredSizeIsCeil ==
    (op = "copy" /\ ~ULt(srcLen, StartIdx)
       /\ pc \notin {"dyn_start", "dyn_required"}) =>
        /\ requiredSize = Count
        /\ ~dOob
        /\ \A k \in dWritten : k < dstLen

\* C10: for arguments that satisfy the static-extent constraints (N > 0,
\* StartIdx < S, D >= ceil((S - StartIdx)/N)) the dynamic-extent overload
\* signals no failure, the static-extent call leaves the memory as the
\* dynamic-extent call does, and the static overload's loop ends with the
\* source exhausted.
C10_OverloadsAgree ==
    (op = "copy" /\ StartInside /\ dstLen >= Count) =>
        /\ CopyDynOver => err = NoError
        /\ (pc = "st_done" /\ BothStatic) =>
              /\ ~dOob
              /\ dMem = sMem
              /\ dWritten = sWritten
              /\ ~ULt(i, srcLen)

====
